---- MODULE Spec2Model ----
(***************************************************************************)
(* Clawban: the snapshot diff engine (diff_work_items, tick) and the       *)
(* incremental poll/reconcile engine (GitHubAdapter.poll_events_since).    *)
(*                                                                         *)
(* Python strings whose ORDER matters (work-item ids, label names, the     *)
(* keys of the persisted snapshot) are sequences of one-character strings, *)
(* compared as Python compares str: lexicographically by code point.       *)
(* Strings that are only compared for equality (titles, urls, stage keys)  *)
(* are TLA+ strings.                                                       *)
(***************************************************************************)
EXTENDS Integers, Sequences, FiniteSets, TLC

VARIABLES
    previous,       \* diff_work_items/tick: the previous snapshot (or None)
    current,        \* diff_work_items: current; tick: adapter.fetch_snapshot()
    call,           \* the last call of the diff engine and what it returned
    snapshot_file,  \* the file at GitHubAdapter._snapshot_path (None: no file)
    pc,             \* "idle", or "returned" after a call of poll_events_since
    since,          \* poll_events_since: the argument of the last call
    updated,        \* poll_events_since: the issues the fetch returned
    loaded,         \* poll_events_since: the snapshot as loaded at its start
    outcome,        \* poll_events_since: what the call returned or raised
    known,          \* the snapshot keys of the first file and of every item observed
    stage_arg,      \* Stage.from_any: its argument `value`
    pollers,        \* two concurrent calls of poll_events_since: their locals
    observed        \* what a concurrent reader of the snapshot file has seen

diffVars == <<previous, current, call>>
pollVars == <<snapshot_file, pc, since, updated, loaded, outcome, known>>
stageVars == <<stage_arg>>
concVars == <<pollers, observed>>
vars == <<previous, current, call, snapshot_file, pc, since, updated, loaded, outcome,
          known, stage_arg, pollers, observed>>

(***************************************************************************)
(* Bounds                                                                  *)
(***************************************************************************)
\* number of distinct work-item ids that may occur in a snapshot
NumIds == 2
\* update times and 'since' range over the instants 0..MaxTime
MaxTime == 2
\* instants per calendar day (the server filters by day, the engine by instant)
TicksPerDay == 2
\* the argument of Stage.from_any is made of at most MaxSegments pieces
MaxSegments == 3

(***************************************************************************)
(* Python str: ordering and str(int)                                       *)
(***************************************************************************)
\* the characters that occur, in ascending code-point order
Alphabet ==
    << "-", "0", "1", "2", "3", "4", "5", "6", "7", "8", "9", ":", "_",
       "a", "b", "c", "d", "e", "g", "i", "m", "n", "o", "p", "q", "r",
       "s", "t", "u" >>

\* Python's ord(), up to the order-preserving renumbering of the Alphabet
OrdTable == [c \in { Alphabet[i] : i \in 1..Len(Alphabet) } |->
                CHOOSE i \in 1..Len(Alphabet) : Alphabet[i] = c]
ord(c) == OrdTable[c]

RECURSIVE StrLess(_, _)
\* Python's a < b on str: lexicographic by code point, a proper prefix first
StrLess(a, b) ==
    IF b = <<>> THEN FALSE
    ELSE IF a = <<>> THEN TRUE
    ELSE IF Head(a) # Head(b) THEN ord(Head(a)) < ord(Head(b))
    ELSE StrLess(Tail(a), Tail(b))

StrLeq(a, b) == a = b \/ StrLess(a, b)

RECURSIVE sorted(_)
RECURSIVE sorted_Descending(_)
\* a sort with the comparison the wrong way round
sorted_Descending(S) ==
    IF S = {} THEN <<>>
    ELSE LET m == CHOOSE x \in S : \A y \in S : StrLeq(y, x)
         IN  <<m>> \o sorted_Descending(S \ {m})

\* Python's sorted() on a set of str: the ascending list of its elements
sorted(S) ==
    IF S = {} THEN <<>>
    ELSE LET m == CHOOSE x \in S : \A y \in S : StrLeq(x, y)
         IN  <<m>> \o sorted(S \ {m})

Digit(d) == Alphabet[d + 2]

RECURSIVE str(_)
\* Python's str(int) for a natural number: its decimal digits
str(n) == IF n < 10 THEN <<Digit(n)>> ELSE str(n \div 10) \o <<Digit(n % 10)>>

(***************************************************************************)
(* models.py: Stage, WorkItem                                              *)
(***************************************************************************)
_CANONICAL_STAGES ==
    << "stage:backlog", "stage:queued", "stage:needs-clarification",
       "stage:ready-to-implement", "stage:in-progress", "stage:in-review",
       "stage:blocked" >>

Stage(key) == [key |-> key]

WorkItem(id, title, stage, url, labels) ==
    [id |-> id, title |-> title, stage |-> stage, url |-> url, labels |-> labels]

\* The ids "9", "10", "11", ...: as str, "10" < "11" < "9".
WorkItemIds == { str(8 + i) : i \in 1..NumIds }

\* What an item may carry besides its id: for each stage a base content and one
\* that differs from it in the title only, in the labels only, in the url only.
Stages == { Stage(_CANONICAL_STAGES[1]), Stage(_CANONICAL_STAGES[5]) }

Contents ==
    { [title |-> "A", labels |-> <<>>,      url |-> "None"],
      [title |-> "B", labels |-> <<>>,      url |-> "None"],
      [title |-> "A", labels |-> <<"bug">>, url |-> "None"],
      [title |-> "A", labels |-> <<>>,      url |-> "https://x/1"] }

\* A snapshot: a mapping id -> WorkItem whose item carries the id of its key.
Snapshots ==
    UNION { { [w \in D |-> WorkItem(w, c[w].title, s[w], c[w].url, c[w].labels)] :
                c \in [D -> Contents], s \in [D -> Stages] } :
            D \in SUBSET WorkItemIds }

EmptySnapshot == [w \in {} |-> WorkItem(w, "", Stage(""), "", <<>>)]

\* Optional[dict]: None, or a dict
None == [isNone |-> TRUE]
Some(v) == [isNone |-> FALSE, value |-> v]

(***************************************************************************)
(* events.py                                                               *)
(***************************************************************************)
WorkItemCreated(work_item) == [type |-> "WorkItemCreated", work_item |-> work_item]
WorkItemDeleted(work_item_id) == [type |-> "WorkItemDeleted", work_item_id |-> work_item_id]
StageChanged(work_item_id, old, new) ==
    [type |-> "StageChanged", work_item_id |-> work_item_id, old |-> old, new |-> new]
WorkItemUpdated(work_item_id) == [type |-> "WorkItemUpdated", work_item_id |-> work_item_id]

(***************************************************************************)
(* diff.py: diff_work_items                                                *)
(***************************************************************************)
RECURSIVE Concat(_)
Concat(ss) == IF ss = <<>> THEN <<>> ELSE Head(ss) \o Concat(Tail(ss))

\* the loop body without its `continue`
CommonEvents_NoContinue(prev, curr, wid) ==
    (IF prev.stage # curr.stage
     THEN << StageChanged(wid, prev.stage, curr.stage) >> ELSE << >>)
    \o (IF prev.title # curr.title \/ prev.labels # curr.labels
        THEN << WorkItemUpdated(wid) >> ELSE << >>)

\* the loop body comparing whole items instead of title and labels
CommonEvents_WholeItem(prev, curr, wid) ==
    IF prev.stage # curr.stage
    THEN << StageChanged(wid, prev.stage, curr.stage) >>
    ELSE IF prev # curr THEN << WorkItemUpdated(wid) >> ELSE << >>

\* the second comparison left out: every id that kept its stage is reported
CommonEvents_AlwaysUpdated(prev, curr, wid) ==
    IF prev.stage # curr.stage
    THEN << StageChanged(wid, prev.stage, curr.stage) >>
    ELSE << WorkItemUpdated(wid) >>

\* lines 38-47: the events of one id that is in both snapshots
CommonEvents(prev, curr, wid) ==
    IF prev.stage # curr.stage
    THEN << StageChanged(wid, prev.stage, curr.stage) >>
    ELSE IF prev.title # curr.title \/ prev.labels # curr.labels
         THEN << WorkItemUpdated(wid) >>
         ELSE << >>

\* the first two loops in the other order
diff_work_items_CreatedFirst(prev, curr) ==
    LET prev_ids == DOMAIN prev
        curr_ids == DOMAIN curr
        gone == sorted(prev_ids \ curr_ids)
        new  == sorted(curr_ids \ prev_ids)
        both == sorted(prev_ids \cap curr_ids)
    IN  [i \in 1..Len(new) |-> WorkItemCreated(curr[new[i]])]
        \o [i \in 1..Len(gone) |-> WorkItemDeleted(gone[i])]
        \o Concat([i \in 1..Len(both) |->
                      CommonEvents(prev[both[i]], curr[both[i]], both[i])])

diff_work_items(prev, curr) ==
    LET prev_ids == DOMAIN prev
        curr_ids == DOMAIN curr
        gone == sorted(prev_ids \ curr_ids)
        new  == sorted(curr_ids \ prev_ids)
        both == sorted(prev_ids \cap curr_ids)
    IN  [i \in 1..Len(gone) |-> WorkItemDeleted(gone[i])]
        \o [i \in 1..Len(new) |-> WorkItemCreated(curr[new[i]])]
        \o Concat([i \in 1..Len(both) |->
                      CommonEvents(prev[both[i]], curr[both[i]], both[i])])

(***************************************************************************)
(* runner.py: tick                                                         *)
(***************************************************************************)
\* previous_snapshot or {}: None and the empty dict are both falsy
OrEmpty(previous_snapshot) ==
    IF previous_snapshot.isNone THEN EmptySnapshot
    ELSE IF DOMAIN previous_snapshot.value = {} THEN EmptySnapshot
    ELSE previous_snapshot.value

TickResult(adapter_name, snapshot, events) ==
    [adapter_name |-> adapter_name, snapshot |-> snapshot, events |-> events]

\* tick returning the snapshot it was given instead of the fetched one
tick_StaleSnapshot(adapter_snapshot, adapter_name, previous_snapshot) ==
    LET prev == OrEmpty(previous_snapshot)
        curr == adapter_snapshot
    IN  TickResult(adapter_name, prev, diff_work_items(prev, curr))

tick(adapter_snapshot, adapter_name, previous_snapshot) ==
    LET prev == OrEmpty(previous_snapshot)
        curr == adapter_snapshot
    IN  TickResult(adapter_name, curr, diff_work_items(prev, curr))

NoCall == [op |-> "none", result |-> TickResult("", EmptySnapshot, <<>>)]

(***************************************************************************)
(* github_adapter.py: datetimes                                            *)
(*                                                                         *)
(* An ISO-8601 string is [t, tz]: the instant its date and time denote and *)
(* its offset suffix ("Z", "+00:00", or "" for none). An aware datetime is *)
(* [t, tzinfo]. GitHub and the adapter use UTC throughout.                 *)
(***************************************************************************)
Times == 0..MaxTime

IsoString(t, tz) == [t |-> t, tz |-> tz]
datetime(t) == [t |-> t, tzinfo |-> "UTC"]

_parse_github_datetime(value) ==
    LET v == IF value.tz = "Z" THEN IsoString(value.t, "+00:00") ELSE value
    IN  \* fromisoformat; a naive result is taken as UTC
        IF v.tz = "" THEN datetime(v.t) ELSE datetime(v.t)

\* dt.isoformat().replace("+00:00", "Z")
isoformat(dt) == IsoString(dt.t, "+00:00")
IsoZ(dt) == LET iso == isoformat(dt)
            IN  IF iso.tz = "+00:00" THEN IsoString(iso.t, "Z") ELSE iso

\* since.date(): instant 0 is the last instant of day 0
date(dt) == (dt.t + 1) \div TicksPerDay

\* _utc_now(): the wall clock at the end of a poll, later than every update seen
WallClock == { datetime(MaxTime + 1), datetime(MaxTime + 2) }

(***************************************************************************)
(* github_adapter.py: GitHubIssue, GitHubIssueEvent, the gh CLI            *)
(***************************************************************************)
Bug == << "b", "u", "g" >>
StageQueued == << "s", "t", "a", "g", "e", ":", "q", "u", "e", "u", "e", "d" >>
StageInProgress ==
    << "s", "t", "a", "g", "e", ":", "i", "n", "-", "p", "r", "o", "g", "r", "e", "s", "s" >>
META == << "_", "m", "e", "t", "a" >>

Range(s) == { s[i] : i \in 1..Len(s) }

GitHubIssue(number, title, url, state, updated_at, labels) ==
    [number |-> number, title |-> title, url |-> url, state |-> state,
     updated_at |-> updated_at, labels |-> labels]

\* labels = tuple(sorted(names)); GitHub lists a label of an issue once
from_gh_json(obj) ==
    GitHubIssue(obj.number, obj.title, obj.url, obj.state,
                _parse_github_datetime(obj.updatedAt), sorted(Range(obj.labels)))

GitHubIssueEvent(kind, issue_number, updated_at, details) ==
    [kind |-> kind, issue_number |-> issue_number, updated_at |-> updated_at,
     details |-> details]

\* The issues of the repository (those of the test fixtures), and their label sets.
IssueNumbers == { 101, 103 }
TitleOf(n) == IF n = 101 THEN "First" ELSE "Third"
UrlOf(n) == IF n = 101 THEN "https://github.com/acme/repo/issues/101"
            ELSE "https://github.com/acme/repo/issues/103"
LabelSets == { {}, {Bug, StageQueued}, {Bug, StageInProgress} }

\* the orders in which a JSON list may give the elements of S
ListsOf(S) == { l \in [1..Cardinality(S) -> S] : \A i, j \in DOMAIN l : i # j => l[i] # l[j] }

\* one object of the output of `gh issue list --json number,title,url,state,updatedAt,labels`
GhJson(n, t, labels) ==
    [number |-> n, title |-> TitleOf(n), url |-> UrlOf(n), state |-> "OPEN",
     updatedAt |-> IsoString(t, "Z"), labels |-> labels]

GhObjects(n, since_date) ==
    { GhJson(n, t, l) : t \in { u \in Times : date(datetime(u)) >= since_date },
                        l \in UNION { ListsOf(S) : S \in LabelSets } }

\* What `gh issue list --search "is:issue updated:>=<date>"` may print: any list
\* of distinct issues of the repository that were updated on or after that day.
GhIssueList(since_date) ==
    LET objs == UNION { GhObjects(n, since_date) : n \in IssueNumbers }
    IN  {<<>>}
        \cup { <<o>> : o \in objs }
        \cup { l \in objs \X objs : l[1].number # l[2].number }

_list_issues(out) == [i \in 1..Len(out) |-> from_gh_json(out[i])]

\* line 182: what _list_issues may return, for each day the search may name
Fetched == [d \in { date(datetime(t)) : t \in Times } |->
               { _list_issues(out) : out \in GhIssueList(d) }]

(***************************************************************************)
(* github_adapter.py: the persisted snapshot                               *)
(***************************************************************************)
\* the record written without the labels of the issue
SnapshotEntry_NoLabels(issue) ==
    [updatedAt |-> IsoZ(issue.updated_at), labels |-> << >>,
     title |-> issue.title, url |-> issue.url, state |-> issue.state]

SnapshotEntry(issue) ==
    [updatedAt |-> IsoZ(issue.updated_at), labels |-> issue.labels,
     title |-> issue.title, url |-> issue.url, state |-> issue.state]

MetaEntry(repo, now) == [repo |-> repo, lastPolledAt |-> IsoZ(now)]

\* dict item assignment d[k] = v
SetItem(d, k, v) == [x \in DOMAIN d \cup {k} |-> IF x = k THEN v ELSE d[x]]

EmptyDict == [k \in {} |-> MetaEntry("", datetime(0))]

\* _load_snapshot: no file is the empty snapshot
_load_snapshot(file) == IF file.isNone THEN EmptyDict ELSE file.value

\* A file whose text is not the JSON text of an object: "invalid" (not JSON at
\* all), "empty" (no text), "array" (JSON, but a list).
Garbled(text) == [isNone |-> FALSE, garbled |-> text]
IsGarbled(file) == ~file.isNone /\ "garbled" \in DOMAIN file

\* line 271: json.loads raises on a text that is not JSON
LoadError(file) ==
    IF IsGarbled(file) /\ file.garbled # "array" THEN "JSONDecodeError" ELSE ""

\* the JSON value null, which json.loads gives as None
JsonNull == [null |-> TRUE]
IsNull(v) == "null" \in DOMAIN v

\* the item record of section 3 of the specification, as line 227 writes it
WellFormedEntry(e) ==
    ~IsNull(e) /\ {"updatedAt", "labels", "title", "url", "state"} \subseteq DOMAIN e

\* the file exists and is not a mapping from keys to item records
Corrupt(file) ==
    /\ ~file.isNone
    /\ IF IsGarbled(file) THEN TRUE
       ELSE \E k \in DOMAIN file.value \ {META} : ~WellFormedEntry(file.value[k])

\* _save_snapshot: the file then holds the JSON text of the snapshot, which
\* json.loads reads back as an equal dict
_save_snapshot(snapshot) == Some(snapshot)

(***************************************************************************)
(* github_adapter.py: poll_events_since                                    *)
(***************************************************************************)
Repo == "acme/repo"

\* comparison of aware datetimes: by the instant they denote
datetime_lt(a, b) == a.t < b.t

\* the label comparison done on the lists, so that order counts
LabelsDiffer_AsLists(curr, prev) == curr # prev

\* lines 201-204: set(issue.labels) != set(prev.get("labels", []))
LabelsDiffer(curr, prev) == Range(curr) # Range(prev)

\* `>=` for `>`
Newer_OrEqual(updated_at, prev_updated_at) == ~datetime_lt(updated_at, prev_updated_at)

\* line 216: issue.updated_at > prev_updated_at
Newer(updated_at, prev_updated_at) == datetime_lt(prev_updated_at, updated_at)

LabelsChangedEvent(issue, prev_labels) ==
    GitHubIssueEvent("labels_changed", issue.number, issue.updated_at,
        [added |-> sorted(Range(issue.labels) \ Range(prev_labels)),
         removed |-> sorted(Range(prev_labels) \ Range(issue.labels))])

UpdatedEvent(issue) == GitHubIssueEvent("updated", issue.number, issue.updated_at, <<>>)

\* `if` for `elif`: the two checks made independently
KnownIssueEvents_NoElif(prev, issue) ==
    LET prev_updated_at == _parse_github_datetime(prev.updatedAt)
        prev_labels == IF "labels" \in DOMAIN prev THEN prev.labels ELSE <<>>
    IN  (IF LabelsDiffer(issue.labels, prev_labels)
         THEN << LabelsChangedEvent(issue, prev_labels) >> ELSE << >>)
        \o (IF Newer(issue.updated_at, prev_updated_at)
            THEN << UpdatedEvent(issue) >> ELSE << >>)

\* lines 200-224: the event of an issue that has the persisted entry prev
KnownIssueEvents(prev, issue) ==
    LET prev_updated_at == _parse_github_datetime(prev.updatedAt)
        prev_labels == IF "labels" \in DOMAIN prev THEN prev.labels ELSE <<>>
    IN  IF LabelsDiffer(issue.labels, prev_labels)
        THEN << LabelsChangedEvent(issue, prev_labels) >>
        ELSE IF Newer(issue.updated_at, prev_updated_at)
             THEN << UpdatedEvent(issue) >>
             ELSE << >>

\* prev = snapshot.get(key, {}): an unknown issue diffed against an empty entry
IssueEvents_DefaultPrev(snapshot, issue) ==
    LET key == str(issue.number)
    IN  IF key \notin DOMAIN snapshot
        THEN KnownIssueEvents([updatedAt |-> IsoZ(issue.updated_at)], issue)
        ELSE KnownIssueEvents(snapshot[key], issue)

\* lines 189-224: the event of one issue that passed the since filter
\* (snapshot.get(key) is None for a missing key and for a null entry)
IssueEvents(snapshot, issue) ==
    LET key == str(issue.number)
    IN  IF key \notin DOMAIN snapshot \/ IsNull(snapshot[key])
        THEN << GitHubIssueEvent("created", issue.number, issue.updated_at,
                                 [title |-> issue.title, labels |-> issue.labels]) >>
        ELSE KnownIssueEvents(snapshot[key], issue)

\* the since filter written with <=: an item updated exactly at since is dropped
PollIssue_DiscardsEqual(st, issue, since_) ==
    IF ~datetime_lt(since_, issue.updated_at)
    THEN st
    ELSE [snapshot |-> SetItem(st.snapshot, str(issue.number), SnapshotEntry(issue)),
          events |-> st.events \o IssueEvents(st.snapshot, issue)]

\* the since filter placed after the upsert: a dropped item is recorded all the same
PollIssue_UpsertsDiscarded(st, issue, since_) ==
    [snapshot |-> SetItem(st.snapshot, str(issue.number), SnapshotEntry(issue)),
     events |-> IF datetime_lt(issue.updated_at, since_) THEN st.events
                ELSE st.events \o IssueEvents(st.snapshot, issue)]

\* events.insert(0, ...) for events.append(...): the newest event first
PollIssue_Prepends(st, issue, since_) ==
    IF datetime_lt(issue.updated_at, since_)
    THEN st
    ELSE [snapshot |-> SetItem(st.snapshot, str(issue.number), SnapshotEntry(issue)),
          events |-> IssueEvents(st.snapshot, issue) \o st.events]

\* the upsert placed in the else branch: a new issue is reported, not recorded
PollIssue_NoUpsertOnCreate(st, issue, since_) ==
    IF datetime_lt(issue.updated_at, since_)
    THEN st
    ELSE [snapshot |-> IF str(issue.number) \in DOMAIN st.snapshot
                       THEN SetItem(st.snapshot, str(issue.number), SnapshotEntry(issue))
                       ELSE st.snapshot,
          events |-> st.events \o IssueEvents(st.snapshot, issue)]

\* the snapshot entry written only when the issue gave an event
PollIssue_UpsertOnEvent(st, issue, since_) ==
    IF datetime_lt(issue.updated_at, since_) \/ IssueEvents(st.snapshot, issue) = <<>>
    THEN st
    ELSE [snapshot |-> SetItem(st.snapshot, str(issue.number), SnapshotEntry(issue)),
          events |-> st.events \o IssueEvents(st.snapshot, issue)]

\* lines 185-233: one iteration of the loop, on the state [snapshot, events]
PollIssue(st, issue, since_) ==
    IF datetime_lt(issue.updated_at, since_)
    THEN st
    ELSE [snapshot |-> SetItem(st.snapshot, str(issue.number), SnapshotEntry(issue)),
          events |-> st.events \o IssueEvents(st.snapshot, issue)]

RECURSIVE PollLoop(_, _, _)
PollLoop(st, issues, since_) ==
    IF issues = <<>> THEN st
    ELSE PollLoop(PollIssue(st, Head(issues), since_), Tail(issues), since_)

\* the reconciliation started on an empty mapping instead of the loaded one
poll_events_since_FromEmpty(snapshot, issues, since_, now) ==
    LET st == PollLoop([snapshot |-> EmptyDict, events |-> <<>>], issues, since_)
    IN  [snapshot |-> SetItem(st.snapshot, META, MetaEntry(Repo, now)),
         events |-> st.events]

\* lines 184-240, after the load and the fetch: [snapshot saved, events returned]
poll_events_since(snapshot, issues, since_, now) ==
    LET st == PollLoop([snapshot |-> snapshot, events |-> <<>>], issues, since_)
    IN  [snapshot |-> SetItem(st.snapshot, META, MetaEntry(Repo, now)),
         events |-> st.events]

(***************************************************************************)
(* The poll engine as a state machine. One action is one whole call of     *)
(* poll_events_since; Dispatch is the caller taking the result, after      *)
(* which only the snapshot file remains.                                   *)
(***************************************************************************)
\* gh_runs: how often the call ran the gh command
NoOutcome == [raised |-> "", events |-> <<>>, gh_runs |-> 0]

Idle ==
    /\ pc = "idle"
    /\ since = datetime(0)
    /\ updated = <<>>
    /\ loaded = EmptyDict
    /\ outcome = NoOutcome

\* The snapshot a test or an earlier release left behind: issue 101 only, its
\* labels not in sorted order, no _meta.
FixtureSnapshot(t) ==
    SetItem(EmptyDict, str(101),
            [updatedAt |-> IsoString(t, "Z"), labels |-> << StageQueued, Bug >>,
             title |-> "First (old)", url |-> UrlOf(101), state |-> "OPEN"])

\* Stage.from_any not called; no concurrent poller or reader at work
StageIdle == stage_arg = <<>>

Pollers == { "A", "B" }

\* snapshot: the mapping the call is about to save; last: it wrote the file last
PollerStart ==
    [pc |-> "start", since |-> datetime(0), updated |-> <<>>, loaded |-> EmptyDict,
     snapshot |-> EmptyDict, raised |-> "", events |-> <<>>, last |-> FALSE]

ConcIdle ==
    /\ pollers = [p \in Pollers |-> PollerStart]
    /\ observed = <<>>

\* the keys of the items a call takes up: fetched and not discarded (lines 185-189)
Observed(issues, since_) ==
    { str(issues[i].number) :
        i \in { j \in 1..Len(issues) : ~datetime_lt(issues[j].updated_at, since_) } }

\* the item keys of a snapshot file
ItemKeys(file) == DOMAIN _load_snapshot(file) \ {META}

InitPoll ==
    /\ snapshot_file \in {None} \cup { Some(FixtureSnapshot(t)) : t \in Times }
    /\ known = ItemKeys(snapshot_file)
    /\ Idle
    /\ previous = None /\ current = EmptySnapshot /\ call = NoCall
    /\ StageIdle /\ ConcIdle

\* poll_events_since(since=s): load, fetch, reconcile, save, return
Poll ==
    /\ pc = "idle"
    /\ \E s \in Times, now \in WallClock :
         \E issues \in Fetched[date(datetime(s))] :
            /\ since' = datetime(s)
            /\ loaded' = _load_snapshot(snapshot_file)
            /\ updated' = issues
            /\ known' = known \cup Observed(updated', since')
            /\ \E res \in { poll_events_since(loaded', updated', since', now) } :
                  /\ snapshot_file' = _save_snapshot(res.snapshot)
                  /\ outcome' = [raised |-> "", events |-> res.events, gh_runs |-> 1]
    /\ pc' = "returned"
    /\ UNCHANGED <<diffVars, stageVars, concVars>>

\* line 200: prev["updatedAt"] raises KeyError for an entry without that key
LoopError(snapshot, issues, since_) ==
    IF \E i \in 1..Len(issues) :
          /\ ~datetime_lt(issues[i].updated_at, since_)
          /\ str(issues[i].number) \in DOMAIN snapshot
          /\ ~IsNull(snapshot[str(issues[i].number)])
          /\ "updatedAt" \notin DOMAIN snapshot[str(issues[i].number)]
    THEN "KeyError" ELSE ""

\* a call of poll_events_since on a file that may be corrupt:
\* [file afterwards, snapshot loaded, issues fetched, outcome]
poll_call(file, issues, since_, now) ==
    IF LoadError(file) # ""
    THEN [file |-> file, loaded |-> EmptyDict, updated |-> <<>>,
          outcome |-> [raised |-> LoadError(file), events |-> <<>>, gh_runs |-> 0]]
    ELSE IF IsGarbled(file)
    THEN \* a list has no .get (line 189) and takes no string index (line 235)
         [file |-> file, loaded |-> EmptyDict, updated |-> issues,
          outcome |-> [raised |-> IF Observed(issues, since_) # {} THEN "AttributeError"
                                  ELSE "TypeError",
                       events |-> <<>>, gh_runs |-> 1]]
    ELSE IF LoopError(_load_snapshot(file), issues, since_) # ""
    THEN [file |-> file, loaded |-> _load_snapshot(file), updated |-> issues,
          outcome |-> [raised |-> LoopError(_load_snapshot(file), issues, since_),
                       events |-> <<>>, gh_runs |-> 1]]
    ELSE LET res == poll_events_since(_load_snapshot(file), issues, since_, now)
         IN  [file |-> _save_snapshot(res.snapshot), loaded |-> _load_snapshot(file),
              updated |-> issues,
              outcome |-> [raised |-> "", events |-> res.events, gh_runs |-> 1]]

\* poll_events_since(since=s) on a snapshot file that is corrupt
PollCorrupt ==
    /\ pc = "idle"
    /\ Corrupt(snapshot_file)
    /\ \E s \in Times, now \in WallClock :
         \E issues \in Fetched[date(datetime(s))] :
            /\ since' = datetime(s)
            /\ \E res \in { poll_call(snapshot_file, issues, since', now) } :
                  /\ loaded' = res.loaded
                  /\ updated' = res.updated
                  /\ snapshot_file' = res.file
                  /\ outcome' = res.outcome
                  /\ known' = IF res.outcome.raised = ""
                              THEN known \cup Observed(issues, since') ELSE known
    /\ pc' = "returned"
    /\ UNCHANGED <<diffVars, stageVars, concVars>>

\* a failed fetch handled by saving what was loaded, stamped with _meta
PollFetchFails_SavesMeta ==
    /\ pc = "idle"
    /\ \E s \in Times :
         /\ since' = datetime(s)
         /\ loaded' = _load_snapshot(snapshot_file)
    /\ snapshot_file' = _save_snapshot(SetItem(loaded', META, MetaEntry(Repo, datetime(MaxTime + 1))))
    /\ updated' = <<>>
    /\ outcome' = [raised |-> "GhCliError", events |-> <<>>, gh_runs |-> 1]
    /\ pc' = "returned"
    /\ UNCHANGED <<known, diffVars, stageVars, concVars>>

\* poll_events_since(since=s) when gh exits non-zero: GhCli.run raises
\* GhCliError out of _list_issues, after the load and before any write
PollFetchFails ==
    /\ pc = "idle"
    /\ \E s \in Times :
         /\ since' = datetime(s)
         /\ loaded' = _load_snapshot(snapshot_file)
    /\ updated' = <<>>
    /\ outcome' = [raised |-> "GhCliError", events |-> <<>>, gh_runs |-> 1]
    /\ pc' = "returned"
    /\ UNCHANGED <<snapshot_file, known, diffVars, stageVars, concVars>>

\* the caller takes the events (or the error); the call's locals are gone
Dispatch ==
    /\ pc = "returned"
    /\ pc' = "idle"
    /\ since' = datetime(0)
    /\ updated' = <<>>
    /\ loaded' = EmptyDict
    /\ outcome' = NoOutcome
    /\ UNCHANGED <<snapshot_file, known, diffVars, stageVars, concVars>>

Next == Poll \/ PollFetchFails \/ Dispatch

Spec == InitPoll /\ [][Next]_vars

(***************************************************************************)
(* The poll engine started on a snapshot file that exists and does not     *)
(* have the expected structure (hand-edited, cut short, or written by      *)
(* another program).                                                       *)
(***************************************************************************)
\* an item record that lacks some of its keys
PartialEntry(keys, t) ==
    [k \in keys |->
        IF k = "updatedAt" THEN IsoString(t, "Z")
        ELSE IF k = "labels" THEN << StageQueued, Bug >>
        ELSE IF k = "title" THEN "First (old)"
        ELSE IF k = "url" THEN UrlOf(101)
        ELSE "OPEN"]

CorruptFiles ==
    { Garbled("invalid"), Garbled("empty"), Garbled("array"),
      Some(SetItem(EmptyDict, str(101), JsonNull)) }
    \cup { Some(SetItem(EmptyDict, str(101), PartialEntry(keys, t))) :
             keys \in { {"updatedAt", "title", "url", "state"},
                        {"labels", "title", "url", "state"},
                        {"updatedAt"} },
             t \in Times }

InitCorrupt ==
    /\ snapshot_file \in CorruptFiles
    /\ known = {}
    /\ Idle
    /\ previous = None /\ current = EmptySnapshot /\ call = NoCall
    /\ StageIdle /\ ConcIdle

\* one call: what it does to the file it found
NextCorrupt == PollCorrupt

SpecCorrupt == InitCorrupt /\ [][NextCorrupt]_vars

(***************************************************************************)
(* The same poll made twice in sequence: after a call has returned, the    *)
(* caller calls poll_events_since again with the same since, and the fetch *)
(* returns the same issues.                                                *)
(***************************************************************************)
\* the second call: load, fetch (as before), reconcile, save, return
Repoll ==
    /\ pc = "returned"
    /\ outcome.raised = ""
    /\ \E now \in WallClock :
         /\ loaded' = _load_snapshot(snapshot_file)
         /\ \E res \in { poll_events_since(loaded', updated, since, now) } :
               /\ snapshot_file' = _save_snapshot(res.snapshot)
               /\ outcome' = [raised |-> "", events |-> res.events, gh_runs |-> 1]
    /\ known' = known \cup Observed(updated, since)
    /\ pc' = "repolled"
    /\ UNCHANGED <<since, updated, diffVars, stageVars, concVars>>

NextRepoll == Poll \/ Repoll

SpecRepoll == InitPoll /\ [][NextRepoll]_vars

(***************************************************************************)
(* Two calls of poll_events_since on one snapshot path, and a reader of    *)
(* the file, running concurrently. Only the load (line 178) and the save   *)
(* (line 239) touch the file; the fetch and the loop between them work on  *)
(* the call's own locals and are part of the load step. The save is        *)
(* Path.write_text (line 276): open(mode="w"), which empties the file, and *)
(* then the write of the whole text at the start of the file.              *)
(***************************************************************************)
\* what the fetches of the concurrent calls return: at most one issue
ConcFetched ==
    { l \in Fetched[date(datetime(0))] :
        Len(l) <= 1 /\ \A i \in 1..Len(l) : l[i].updated_at.t = MaxTime }

InitConc ==
    /\ snapshot_file \in { None, Some(FixtureSnapshot(0)) }
    /\ known = ItemKeys(snapshot_file)
    /\ Idle
    /\ previous = None /\ current = EmptySnapshot /\ call = NoCall
    /\ StageIdle /\ ConcIdle

\* lines 178-238 of the call p: load, fetch, reconcile; or the load raises
PLoad(p) ==
    /\ pollers[p].pc = "start"
    /\ \E now \in WallClock, issues \in ConcFetched :
         pollers' = [pollers EXCEPT ![p] =
            IF LoadError(snapshot_file) # ""
            THEN [@ EXCEPT !.pc = "raised", !.raised = LoadError(snapshot_file)]
            ELSE LET res == poll_events_since(_load_snapshot(snapshot_file), issues,
                                              datetime(0), now)
                 IN  [@ EXCEPT !.pc = "reconciled",
                               !.loaded = _load_snapshot(snapshot_file),
                               !.updated = issues,
                               !.snapshot = res.snapshot,
                               !.events = res.events]]
    /\ UNCHANGED <<snapshot_file, observed, pc, since, updated, loaded, outcome, known,
                   diffVars, stageVars>>

\* line 276, write_text: open(mode="w") creates or empties the file
POpen(p) ==
    /\ pollers[p].pc = "reconciled"
    /\ snapshot_file' = Garbled("empty")
    /\ pollers' = [pollers EXCEPT ![p].pc = "writing"]
    /\ UNCHANGED <<observed, pc, since, updated, loaded, outcome, known, diffVars, stageVars>>

\* What the file holds after the call p has written its text from offset 0.
\* If another call wrote since p emptied the file, p's text replaces the start
\* of that text: the file is p's text when it is at least as long, and p's
\* text followed by the rest of the other text ("mixed") when it is shorter.
\* The model does not keep the lengths, so either may be the case.
Written(file, snapshot) ==
    IF file = Garbled("empty") \/ file = _save_snapshot(snapshot)
    THEN { _save_snapshot(snapshot) }
    ELSE { _save_snapshot(snapshot), Garbled("mixed") }

\* line 276, write_text: the text is written and the file closed; line 240
PWrite(p) ==
    /\ pollers[p].pc = "writing"
    /\ snapshot_file' \in Written(snapshot_file, pollers[p].snapshot)
    /\ pollers' = [q \in Pollers |->
                      IF q = p THEN [pollers[q] EXCEPT !.pc = "returned", !.last = TRUE]
                      ELSE [pollers[q] EXCEPT !.last = FALSE]]
    /\ UNCHANGED <<observed, pc, since, updated, loaded, outcome, known, diffVars, stageVars>>

\* another process reads the file, as _load_snapshot does (lines 269-271)
Read ==
    /\ observed' = << snapshot_file >>
    /\ observed' # observed
    /\ UNCHANGED <<snapshot_file, pollers, pc, since, updated, loaded, outcome, known,
                   diffVars, stageVars>>

NextConc == (\E p \in Pollers : PLoad(p) \/ POpen(p) \/ PWrite(p)) \/ Read

SpecConc == InitConc /\ [][NextConc]_vars

(***************************************************************************)
(* models.py: _slug and Stage.from_any, on strings as sequences of         *)
(* one-character strings                                                   *)
(***************************************************************************)
Uppercase == << "A", "B", "C", "D", "E", "F", "G", "H", "I", "J", "K", "L", "M", "N", "O", "P", "Q", "R", "S", "T", "U", "V", "W", "X", "Y", "Z" >>
Lowercase == << "a", "b", "c", "d", "e", "f", "g", "h", "i", "j", "k", "l", "m", "n", "o", "p", "q", "r", "s", "t", "u", "v", "w", "x", "y", "z" >>

\* str.lower(), a character at a time
LowerTable ==
    [c \in Range(Uppercase) |-> Lowercase[CHOOSE i \in 1..Len(Uppercase) : Uppercase[i] = c]]
lower(s) == [i \in 1..Len(s) |-> IF s[i] \in DOMAIN LowerTable THEN LowerTable[s[i]] ELSE s[i]]

\* str.strip(): leading and trailing whitespace removed
Whitespace == { " ", "\t", "\n" }
strip(s) ==
    LET inner == { i \in 1..Len(s) : s[i] \notin Whitespace }
    IN  IF inner = {} THEN << >>
        ELSE SubSeq(s, CHOOSE i \in inner : \A j \in inner : i <= j,
                       CHOOSE i \in inner : \A j \in inner : i >= j)

startswith(s, prefix) ==
    Len(s) >= Len(prefix) /\ SubSeq(s, 1, Len(prefix)) = prefix

\* str.replace(old, new): every occurrence, left to right, none overlapping
RECURSIVE replace(_, _, _)
replace(s, old, new) ==
    IF Len(s) < Len(old) THEN s
    ELSE IF startswith(s, old)
         THEN new \o replace(SubSeq(s, Len(old) + 1, Len(s)), old, new)
         ELSE << Head(s) >> \o replace(Tail(s), old, new)

StageColon == << "s", "t", "a", "g", "e", ":" >>
StageSlash == << "s", "t", "a", "g", "e", "/" >>

\* lines 19-27
_slug(s) ==
    replace(replace(replace(replace(lower(strip(s)), StageColon, << >>),
                            StageSlash, << >>),
                    << "_" >>, << "-" >>),
            << " " >>, << "-" >>)

\* the text of the canonical stage keys (lines 8-16)
StageText ==
    [k \in Range(_CANONICAL_STAGES) |->
        CASE k = "stage:backlog" -> << "s", "t", "a", "g", "e", ":", "b", "a", "c", "k", "l", "o", "g" >>
          [] k = "stage:queued" -> StageQueued
          [] k = "stage:needs-clarification" ->
                << "s", "t", "a", "g", "e", ":", "n", "e", "e", "d", "s", "-", "c", "l", "a", "r", "i", "f", "i", "c", "a", "t", "i", "o", "n" >>
          [] k = "stage:ready-to-implement" ->
                << "s", "t", "a", "g", "e", ":", "r", "e", "a", "d", "y", "-", "t", "o", "-", "i", "m", "p", "l", "e", "m", "e", "n", "t" >>
          [] k = "stage:in-progress" -> StageInProgress
          [] k = "stage:in-review" -> << "s", "t", "a", "g", "e", ":", "i", "n", "-", "r", "e", "v", "i", "e", "w" >>
          [] k = "stage:blocked" -> << "s", "t", "a", "g", "e", ":", "b", "l", "o", "c", "k", "e", "d" >>]

CanonicalKeys == { StageText[k] : k \in Range(_CANONICAL_STAGES) }

\* a default stage for what is not recognized
from_any_DefaultBacklog(value) ==
    LET normalized == _slug(value)
        key == IF startswith(lower(strip(value)), StageColon)
               THEN lower(strip(value))
               ELSE StageColon \o normalized
    IN  IF key \notin CanonicalKeys
        THEN [raised |-> "", stage |-> Stage(StageText["stage:backlog"])]
        ELSE [raised |-> "", stage |-> Stage(key)]

\* lines 42-64: the Stage returned, or ValueError raised
from_any(value) ==
    LET normalized == _slug(value)
        key == IF startswith(lower(strip(value)), StageColon)
               THEN lower(strip(value))
               ELSE StageColon \o normalized
    IN  IF key \notin CanonicalKeys
        THEN [raised |-> "ValueError", stage |-> Stage(<< >>)]
        ELSE [raised |-> "", stage |-> Stage(key)]

(***************************************************************************)
(* Stage.from_any as a state machine: the argument is drawn by Init, and   *)
(* one call is made on it.                                                 *)
(***************************************************************************)
\* the argument is made of at most MaxSegments of these pieces
Segments ==
    { StageColon, StageSlash,
      << "S", "t", "a", "g", "e", ":" >>,
      << "b", "a", "c", "k", "l", "o", "g" >>,
      << "B", "A", "C", "K", "L", "O", "G" >>,
      << "i", "n" >>,
      << "p", "r", "o", "g", "r", "e", "s", "s" >>,
      << "I", "N", "-", "P", "R", "O", "G", "R", "E", "S", "S" >>,
      << " " >>,
      << "_" >>,
      << "-" >>,
      << "t", "r", "i", "a", "g", "e" >>,
      << "b", "a", "c", "k" >>,
      << "l", "o", "g" >> }

RECURSIVE Joined(_)
Joined(n) ==
    IF n = 0 THEN { << >> }
    ELSE Joined(n - 1) \cup { s \o t : s \in Joined(n - 1), t \in Segments }

StageInputs == Joined(MaxSegments)

InitStage ==
    /\ stage_arg \in StageInputs
    /\ call = NoCall
    /\ previous = None /\ current = EmptySnapshot
    /\ snapshot_file = None /\ known = {} /\ Idle
    /\ ConcIdle

\* Stage.from_any(value)
FromAny ==
    /\ call.op = "none"
    /\ call' = [op |-> "from_any", result |-> from_any(stage_arg)]
    /\ UNCHANGED <<previous, current, stage_arg, pollVars, concVars>>

NextStage == FromAny

SpecStage == InitStage /\ [][NextStage]_vars

(***************************************************************************)
(* The diff engine as a state machine: the inputs are drawn by Init, and   *)
(* one call of diff_work_items or of tick is made on them.                 *)
(***************************************************************************)
InitDiff ==
    /\ previous \in {None} \cup { Some(s) : s \in Snapshots }
    /\ current \in Snapshots
    /\ call = NoCall
    /\ snapshot_file = None /\ known = {} /\ Idle
    /\ StageIdle /\ ConcIdle

\* diff_work_items(previous, current)
Diff ==
    /\ call.op = "none"
    /\ ~previous.isNone
    /\ call' = [op |-> "diff",
                result |-> TickResult("", current,
                                      diff_work_items(previous.value, current))]
    /\ UNCHANGED <<previous, current>>
    /\ UNCHANGED <<pollVars, stageVars, concVars>>

\* tick(adapter, previous_snapshot)
Tick ==
    /\ call.op = "none"
    /\ call' = [op |-> "tick", result |-> tick(current, "github", previous)]
    /\ UNCHANGED <<previous, current>>
    /\ UNCHANGED <<pollVars, stageVars, concVars>>

NextDiff == Diff \/ Tick

SpecDiff == InitDiff /\ [][NextDiff]_vars

(***************************************************************************)
(* The diff engine replayed: after a tick has returned, the caller passes  *)
(* the snapshot of its result as previous_snapshot to the next tick, and   *)
(* the adapter fetches the same snapshot again.                            *)
(***************************************************************************)
\* tick(adapter, previous_snapshot=result.snapshot)
TickReplay ==
    /\ call.op = "tick"
    /\ previous' = Some(call.result.snapshot)
    /\ call' = [op |-> "replay", result |-> tick(current, "github", previous')]
    /\ UNCHANGED current
    /\ UNCHANGED <<pollVars, stageVars, concVars>>

NextReplay == Diff \/ Tick \/ TickReplay

SpecReplay == InitDiff /\ [][NextReplay]_vars

(***************************************************************************)
(* Vocabulary of the claims about the diff engine                          *)
(***************************************************************************)
EventId(e) == IF e.type = "WorkItemCreated" THEN e.work_item.id ELSE e.work_item_id

\* how often the event e occurs in s; how many events of a type s has for an id
CountOf(e, s) == Cardinality({ i \in 1..Len(s) : s[i] = e })
CountFor(types, wid, s) ==
    Cardinality({ i \in 1..Len(s) : s[i].type \in types /\ EventId(s[i]) = wid })

AllTypes == {"WorkItemDeleted", "WorkItemCreated", "StageChanged", "WorkItemUpdated"}

DiffDone == call.op = "diff"
DiffEvents == call.result.events
OnlyPrevious == (DOMAIN previous.value) \ (DOMAIN current)
OnlyCurrent == (DOMAIN current) \ (DOMAIN previous.value)
InBoth == (DOMAIN previous.value) \cap (DOMAIN current)

\* the events of s whose type is in types are in ascending order of id
AscendingWithin(s, types) ==
    \A i, j \in 1..Len(s) :
        (i < j /\ s[i].type \in types /\ s[j].type \in types)
            => StrLess(EventId(s[i]), EventId(s[j]))

\* C1: diff_work_items emits exactly one WorkItemDeleted for every id only in
\* previous and exactly one WorkItemCreated, carrying the current item, for every
\* id only in current; it emits neither kind for any other id, and the events of
\* each of the two kinds are in ascending order of id.
C1_DeletedCreated ==
    DiffDone =>
        /\ \A wid \in OnlyPrevious :
              /\ CountFor({"WorkItemDeleted"}, wid, DiffEvents) = 1
              /\ CountOf(WorkItemDeleted(wid), DiffEvents) = 1
        /\ \A wid \in OnlyCurrent :
              /\ CountFor({"WorkItemCreated"}, wid, DiffEvents) = 1
              /\ CountOf(WorkItemCreated(current[wid]), DiffEvents) = 1
        /\ \A i \in 1..Len(DiffEvents) :
              /\ DiffEvents[i].type = "WorkItemDeleted"
                    => EventId(DiffEvents[i]) \in OnlyPrevious
              /\ DiffEvents[i].type = "WorkItemCreated"
                    => EventId(DiffEvents[i]) \in OnlyCurrent
        /\ AscendingWithin(DiffEvents, {"WorkItemDeleted"})
        /\ AscendingWithin(DiffEvents, {"WorkItemCreated"})

\* a diff in which two ids were created, so that their order shows
C1_Witness ==
    /\ DiffDone
    /\ Cardinality(OnlyCurrent) = 2
    /\ Len(DiffEvents) = 2
    /\ DiffEvents[1].type = "WorkItemCreated"
    /\ DiffEvents[2].type = "WorkItemCreated"

\* C2: an id in both snapshots whose stage differs yields exactly one
\* StageChanged(id, old = previous stage, new = current stage) and no
\* WorkItemUpdated, also when its title or labels differ as well.
C2_StageChanged ==
    DiffDone =>
        \A wid \in InBoth :
            previous.value[wid].stage # current[wid].stage =>
                /\ CountFor({"StageChanged"}, wid, DiffEvents) = 1
                /\ CountOf(StageChanged(wid, previous.value[wid].stage,
                                        current[wid].stage), DiffEvents) = 1
                /\ CountFor({"WorkItemUpdated"}, wid, DiffEvents) = 0

\* the stage changed together with the title, and the diff was made
C2_Witness ==
    /\ DiffDone
    /\ \E wid \in InBoth :
          /\ previous.value[wid].stage # current[wid].stage
          /\ previous.value[wid].title # current[wid].title
          /\ CountFor({"StageChanged"}, wid, DiffEvents) = 1

\* C3: an id in both snapshots with the same stage yields exactly one
\* WorkItemUpdated (and nothing else) when its title or labels differ, and no
\* event at all when neither differs.
C3_Updated ==
    DiffDone =>
        \A wid \in InBoth :
            previous.value[wid].stage = current[wid].stage =>
                IF \/ previous.value[wid].title # current[wid].title
                   \/ previous.value[wid].labels # current[wid].labels
                THEN /\ CountOf(WorkItemUpdated(wid), DiffEvents) = 1
                     /\ CountFor(AllTypes, wid, DiffEvents) = 1
                ELSE CountFor(AllTypes, wid, DiffEvents) = 0

\* one id changed its labels only, the other its url only: one event in all
C3_Witness ==
    /\ DiffDone
    /\ \E v, w \in InBoth :
          /\ v # w
          /\ previous.value[v].stage = current[v].stage
          /\ previous.value[v].title = current[v].title
          /\ previous.value[v].labels # current[v].labels
          /\ previous.value[w].stage = current[w].stage
          /\ previous.value[w].title = current[w].title
          /\ previous.value[w].labels = current[w].labels
          /\ previous.value[w].url # current[w].url
          /\ DiffEvents = << WorkItemUpdated(v) >>

Rank(e) == IF e.type = "WorkItemDeleted" THEN 1
           ELSE IF e.type = "WorkItemCreated" THEN 2 ELSE 3

\* C4: in the returned list every WorkItemDeleted precedes every WorkItemCreated,
\* every WorkItemCreated precedes every StageChanged and WorkItemUpdated, and the
\* StageChanged/WorkItemUpdated events together are in ascending order of id.
C4_EmissionOrder ==
    DiffDone =>
        /\ \A i, j \in 1..Len(DiffEvents) :
              i < j => Rank(DiffEvents[i]) <= Rank(DiffEvents[j])
        /\ AscendingWithin(DiffEvents, {"StageChanged", "WorkItemUpdated"})

\* a StageChanged and a WorkItemUpdated of two ids in one diff
C4_Witness ==
    /\ DiffDone
    /\ Len(DiffEvents) = 2
    /\ { DiffEvents[1].type, DiffEvents[2].type } = {"StageChanged", "WorkItemUpdated"}

TickDone == call.op = "tick"
TickEvents == call.result.events

\* C5: tick without a previous snapshot returns exactly one WorkItemCreated per
\* item of the fetched snapshot, in ascending id order, and nothing else; the
\* returned snapshot is the fetched one; with a previous snapshot the events are
\* diff_work_items(previous, fetched).
C5_Tick ==
    TickDone =>
        /\ call.result.snapshot = current
        /\ previous.isNone =>
              /\ Len(TickEvents) = Cardinality(DOMAIN current)
              /\ \A wid \in DOMAIN current :
                    CountOf(WorkItemCreated(current[wid]), TickEvents) = 1
              /\ AscendingWithin(TickEvents, {"WorkItemCreated"})
        /\ ~previous.isNone =>
              TickEvents = diff_work_items(previous.value, current)

\* a first run over two items
C5_Witness ==
    /\ TickDone
    /\ previous.isNone
    /\ Cardinality(DOMAIN current) = 2
    /\ Len(TickEvents) = 2

(***************************************************************************)
(* Vocabulary of the claims about the poll engine                          *)
(***************************************************************************)
\* a call of poll_events_since has returned its events
PollReturned == pc = "returned" /\ outcome.raised = ""
PollEvents == outcome.events
Saved == snapshot_file.value

Fetch == 1..Len(updated)
Key(i) == str(updated[i].number)
\* line 186: the since filter drops the item
Discarded(i) == updated[i].updated_at.t < since.t
\* the id of the item had an entry in the snapshot the call loaded
Persisted(i) == Key(i) \in DOMAIN loaded
PersistedTime(i) == _parse_github_datetime(loaded[Key(i)].updatedAt).t
FetchedTime(i) == updated[i].updated_at.t
PersistedLabels(i) == Range(loaded[Key(i)].labels)
FetchedLabels(i) == Range(updated[i].labels)

EventsFor(i) == { k \in 1..Len(PollEvents) : PollEvents[k].issue_number = updated[i].number }
KindFor(i, kind) == { k \in EventsFor(i) : PollEvents[k].kind = kind }

\* l lists exactly the elements of S, in ascending order
AscendingListOf(l, S) ==
    /\ Range(l) = S
    /\ \A a, b \in 1..Len(l) : a < b => StrLess(l[a], l[b])

\* C6: a fetched item that passes the since filter and whose id has no entry in
\* the persisted snapshot yields exactly one event, a 'created' carrying the id,
\* the observed update time, the title and the labels; after the poll the
\* persisted snapshot has an entry for the id.
C6_Created ==
    PollReturned =>
        \A i \in Fetch :
            (~Discarded(i) /\ ~Persisted(i)) =>
                /\ Cardinality(EventsFor(i)) = 1
                /\ \A k \in EventsFor(i) :
                      PollEvents[k] =
                          GitHubIssueEvent("created", updated[i].number,
                                           updated[i].updated_at,
                                           [title |-> updated[i].title,
                                            labels |-> updated[i].labels])
                /\ Key(i) \in DOMAIN Saved

\* a new issue with labels is reported next to a known one
C6_Witness ==
    /\ PollReturned
    /\ \E i, j \in Fetch :
          /\ ~Discarded(i) /\ ~Persisted(i) /\ updated[i].labels # <<>>
          /\ Persisted(j)
          /\ KindFor(i, "created") # {}

LabelsChangedRight(i) ==
    /\ Cardinality(KindFor(i, "labels_changed")) <= 1
    /\ (KindFor(i, "labels_changed") # {}) <=> (FetchedLabels(i) # PersistedLabels(i))
    /\ \A k \in KindFor(i, "labels_changed") :
          /\ AscendingListOf(PollEvents[k].details.added,
                             FetchedLabels(i) \ PersistedLabels(i))
          /\ AscendingListOf(PollEvents[k].details.removed,
                             PersistedLabels(i) \ FetchedLabels(i))

\* C7 as stated: for EVERY fetched item whose id has a persisted entry,
\* 'labels_changed' is emitted iff the label sets differ, with added = fetched
\* minus persisted and removed = persisted minus fetched, ascending.
C7_AsStated ==
    PollReturned => \A i \in Fetch : Persisted(i) => LabelsChangedRight(i)

\* C7: for a fetched item that passes the since filter and whose id has a
\* persisted entry, 'labels_changed' is emitted iff the fetched and persisted
\* labels differ as sets, whatever the order of the two update times; added is
\* fetched minus persisted, removed is persisted minus fetched, both ascending.
C7_LabelsChanged ==
    PollReturned =>
        \A i \in Fetch : (~Discarded(i) /\ Persisted(i)) => LabelsChangedRight(i)

\* labels swapped on an item whose fetched update time is OLDER than the
\* persisted one, next to an item whose labels only changed their order
C7_Witness ==
    /\ PollReturned
    /\ \E i, j \in Fetch :
          /\ ~Discarded(i) /\ Persisted(i)
          /\ FetchedTime(i) < PersistedTime(i)
          /\ \E k \in KindFor(i, "labels_changed") :
                /\ PollEvents[k].details.added # <<>>
                /\ PollEvents[k].details.removed # <<>>
          /\ ~Discarded(j) /\ Persisted(j)
          /\ updated[j].labels # loaded[Key(j)].labels
          /\ FetchedLabels(j) = PersistedLabels(j)
          /\ KindFor(j, "labels_changed") = {}

UpdatedRight(i) ==
    /\ Cardinality(KindFor(i, "updated")) <= 1
    /\ (KindFor(i, "updated") # {}) <=> (FetchedTime(i) > PersistedTime(i))
    /\ \A k \in KindFor(i, "updated") : PollEvents[k].details = <<>>
    /\ FetchedTime(i) <= PersistedTime(i) => EventsFor(i) = {}

\* C8 as stated: for EVERY fetched item with a persisted entry and an equal
\* label set, 'updated' (empty details) is emitted iff the fetched update time
\* is strictly newer than the persisted one, and nothing when equal or older.
C8_AsStated ==
    PollReturned =>
        \A i \in Fetch :
            (Persisted(i) /\ FetchedLabels(i) = PersistedLabels(i)) => UpdatedRight(i)

\* C8: for a fetched item that passes the since filter, with a persisted entry
\* and an equal label set, 'updated' (empty details) is emitted iff the fetched
\* update time is strictly newer than the persisted one; when it is equal or
\* older, no event is emitted for the item.
C8_Updated ==
    PollReturned =>
        \A i \in Fetch :
            (~Discarded(i) /\ Persisted(i) /\ FetchedLabels(i) = PersistedLabels(i))
                => UpdatedRight(i)

\* same labels in another order and a newer time: 'updated'; and an item with
\* an equal time: nothing
C8_Witness ==
    /\ PollReturned
    /\ \E i \in Fetch :
          /\ ~Discarded(i) /\ Persisted(i)
          /\ FetchedLabels(i) = PersistedLabels(i)
          /\ updated[i].labels # loaded[Key(i)].labels
          /\ FetchedTime(i) > PersistedTime(i)
          /\ KindFor(i, "updated") # {}

\* C9: one call emits at most one event for each item the fetch reported.
C9_AtMostOneEvent ==
    PollReturned =>
        /\ \A i \in Fetch : Cardinality(EventsFor(i)) <= 1
        /\ \A k \in 1..Len(PollEvents) : \E i \in Fetch : k \in EventsFor(i)

\* an item whose labels changed AND whose time is newer gives one event, next
\* to a created one
C9_Witness ==
    /\ PollReturned
    /\ \E i, j \in Fetch :
          /\ Persisted(i) /\ ~Discarded(i)
          /\ FetchedLabels(i) # PersistedLabels(i)
          /\ FetchedTime(i) > PersistedTime(i)
          /\ Cardinality(EventsFor(i)) = 1
          /\ KindFor(j, "created") # {}

UpsertRight(i) ==
    /\ Key(i) \in DOMAIN Saved
    /\ LET rec == Saved[Key(i)]
       IN  /\ DOMAIN rec = {"updatedAt", "labels", "title", "url", "state"}
           /\ _parse_github_datetime(rec.updatedAt) = updated[i].updated_at
           /\ rec.updatedAt.tz = "Z"
           /\ rec.labels = updated[i].labels
           /\ rec.title = updated[i].title
           /\ rec.url = updated[i].url
           /\ rec.state = updated[i].state

\* C10 as stated: after a successful poll the persisted record of EVERY fetched
\* item is the freshly fetched {updated_at, labels, title, url, state}.
C10_AsStated ==
    PollReturned => \A i \in Fetch : UpsertRight(i)

\* C10: after a successful poll, the persisted record of every fetched item
\* that passes the since filter is the freshly fetched {updated_at, labels,
\* title, url, state}, whether or not an event was emitted for it.
C10_Upsert ==
    PollReturned => \A i \in Fetch : ~Discarded(i) => UpsertRight(i)

\* an item that gave no event (same labels, older time) was overwritten
C10_Witness ==
    /\ PollReturned
    /\ \E i \in Fetch :
          /\ ~Discarded(i) /\ Persisted(i)
          /\ EventsFor(i) = {}
          /\ FetchedTime(i) < PersistedTime(i)
          /\ Saved[Key(i)] # loaded[Key(i)]
          /\ Saved[Key(i)].title # loaded[Key(i)].title

(***************************************************************************)
(* Claims about what a poll leaves alone and what it keeps                 *)
(***************************************************************************)
\* the keys of the items the fetch returned, discarded or not
FetchedKeys == { Key(i) : i \in Fetch }

\* the persisted item records whose id the fetch did not return
Unfetched == (DOMAIN loaded \ {META}) \ FetchedKeys

\* C11: after a poll every persisted item record whose id the fetch did not
\* return is identical to what it was before the poll; only the records of
\* fetched ids and the _meta entry may differ or be new.
C11_Frame ==
    PollReturned =>
        /\ \A k \in Unfetched : k \in DOMAIN Saved /\ Saved[k] = loaded[k]
        /\ DOMAIN Saved \subseteq DOMAIN loaded \cup FetchedKeys \cup {META}

\* a poll that changed the record of the one fetched item and the _meta entry,
\* next to the record of an item it did not fetch
C11_Witness ==
    /\ PollReturned
    /\ Unfetched # {}
    /\ META \in DOMAIN loaded /\ Saved[META] # loaded[META]
    /\ \E i \in Fetch : Persisted(i) /\ Saved[Key(i)] # loaded[Key(i)]

(***************************************************************************)
(* Claims about a failed fetch                                             *)
(***************************************************************************)
FetchFailed == pc = "returned" /\ outcome.raised = "GhCliError"

\* C12: a call of poll_events_since whose fetch fails raises the error after
\* one run of gh (no retry), returns no events, and leaves the snapshot file
\* exactly as it was before the call.
C12_FetchFailure ==
    [][(pc = "idle" /\ FetchFailed')
          => /\ outcome'.events = <<>>
             /\ outcome'.gh_runs = 1
             /\ snapshot_file' = snapshot_file]_vars

\* the fetch failed on a snapshot file that an earlier poll had written
C12_Witness ==
    /\ FetchFailed
    /\ ~snapshot_file.isNone
    /\ META \in DOMAIN Saved
    /\ DOMAIN Saved # {META}
    /\ loaded = Saved

(***************************************************************************)
(* Claims about a corrupt snapshot file                                    *)
(***************************************************************************)
\* the file is as the call found it: still not a JSON object, or still the
\* mapping the call loaded
NotWritten == IF IsGarbled(snapshot_file) THEN TRUE ELSE snapshot_file = Some(loaded)

\* C13: a call of poll_events_since that finds a snapshot file without the
\* expected structure fails: it raises, returns no event and does not write
\* the file. (Under SpecCorrupt every call starts on such a file.)
C13_CorruptIsFatal ==
    pc = "returned" =>
        /\ outcome.raised # ""
        /\ outcome.events = <<>>
        /\ NotWritten

(***************************************************************************)
(* Claims about concurrent use of the snapshot file                        *)
(***************************************************************************)
\* C14: a reader that loads the snapshot file while poll_events_since is
\* saving it sees the complete previous content or the complete new content,
\* never an empty, truncated or interleaved text.
C14_AllOrNothing ==
    observed # <<>> => ~IsGarbled(observed[1])

\* both calls have returned
BothReturned == \A p \in Pollers : pollers[p].pc = "returned"

\* No file the calls start on has a _meta entry and every save writes one: a
\* call loaded before any save iff the snapshot it loaded has no _meta.
Interleaved == BothReturned /\ \A p \in Pollers : META \notin DOMAIN pollers[p].loaded
Serialized == BothReturned /\ \E p \in Pollers : META \in DOMAIN pollers[p].loaded

\* the keys of the records the call p upserted
Upserted(p) == Observed(pollers[p].updated, datetime(0))

\* the file has, for the key k, what the call p loaded: the upsert of k is lost
AsLoadedBy(p, k) ==
    IF k \in DOMAIN pollers[p].loaded
    THEN k \in DOMAIN Saved /\ Saved[k] = pollers[p].loaded[k]
    ELSE k \notin DOMAIN Saved

\* C19: when two calls on one snapshot path both load before either saves,
\* the file ends as the snapshot of the call that saved last, and the records
\* only the other call upserted are as they were loaded (lost); when the
\* calls are serialized, the records only the first call upserted stay.
C19_LastSaverWins ==
    \A p, q \in Pollers :
        (p # q /\ pollers[p].last) =>
            /\ Interleaved =>
                  /\ snapshot_file = _save_snapshot(pollers[p].snapshot)
                  /\ \A k \in Upserted(q) \ Upserted(p) : AsLoadedBy(p, k)
            /\ Serialized =>
                  /\ snapshot_file = _save_snapshot(pollers[p].snapshot)
                  /\ \A k \in Upserted(q) \ Upserted(p) :
                        Saved[k] = pollers[q].snapshot[k]

(***************************************************************************)
(* Claims about Stage.from_any                                             *)
(***************************************************************************)
StageCalled == call.op = "from_any"
StageResult == call.result

\* the letters of the name of a stage key, "stage:" and hyphens left out
NameLetters(key) == Range(SubSeq(key, Len(StageColon) + 1, Len(key))) \ { "-" }

\* C15: Stage.from_any either returns a Stage whose key is one of the seven
\* canonical keys or raises the unrecognized-stage error; the key it returns
\* is spelled by the input (every letter of the stage name occurs in the
\* lower-cased input), so no input is coerced to a default stage.
C15_CanonicalOrError ==
    StageCalled =>
        \/ StageResult.raised = "ValueError"
        \/ /\ StageResult.raised = ""
           /\ StageResult.stage.key \in CanonicalKeys
           /\ NameLetters(StageResult.stage.key) \subseteq Range(lower(stage_arg))

\* an input that begins with "stage:" and is no canonical key is rejected,
\* although its slug names a stage (as "stage:stage/backlog")
C15_Witness ==
    /\ StageCalled
    /\ StageResult.raised = "ValueError"
    /\ startswith(lower(strip(stage_arg)), StageColon)
    /\ StageColon \o _slug(stage_arg) \in CanonicalKeys

\* underscores and spaces become hyphens
Hyphenated(s) == [i \in 1..Len(s) |-> IF s[i] \in { "_", " " } THEN "-" ELSE s[i]]

\* the key as the claim C16 describes it: trimmed and lower-cased; used as it
\* is when it begins with "stage:"; otherwise the prefix "stage/" is stripped
\* (a prefix "stage:" cannot be there), underscores and spaces become hyphens
\* and "stage:" is prefixed
NormalizedKey(s) ==
    LET t == lower(strip(s))
    IN  IF startswith(t, StageColon) THEN t
        ELSE StageColon \o Hyphenated(IF startswith(t, StageSlash)
                                      THEN SubSeq(t, Len(StageSlash) + 1, Len(t))
                                      ELSE t)

\* C16: Stage.from_any returns the Stage of the normalized key (trim,
\* lower-case; as-is if it begins with "stage:", else namespace prefix
\* stripped, underscores and spaces to hyphens, "stage:" prefixed) when that
\* key is byte-for-byte a canonical key, and rejects the input otherwise.
C16_Normalization ==
    StageCalled =>
        IF NormalizedKey(stage_arg) \in CanonicalKeys
        THEN StageResult = [raised |-> "", stage |-> Stage(NormalizedKey(stage_arg))]
        ELSE StageResult.raised = "ValueError"

(***************************************************************************)
(* Claims about the history of the persisted snapshot                      *)
(***************************************************************************)
UpdatedAtOf(rec) == _parse_github_datetime(rec.updatedAt).t

\* C17: a poll never replaces the persisted updated_at of an item by an older
\* one, so the persisted updated_at is always the most recent one observed.
C17_NeverOlder ==
    PollReturned =>
        \A k \in DOMAIN loaded \ {META} : UpdatedAtOf(Saved[k]) >= UpdatedAtOf(loaded[k])

\* the file has, for the key k, what the call loaded
AsBefore(k) ==
    IF k \in DOMAIN loaded THEN k \in DOMAIN Saved /\ Saved[k] = loaded[k]
    ELSE k \notin DOMAIN Saved

\* C18: a fetched item whose update time is strictly earlier than since gives
\* no event of any kind and its record is left as it was; a fetched item whose
\* update time is equal to or later than since is processed: its record is
\* upserted, and it gives no event only if it has a persisted entry with the
\* same label set and an update time that is not older than the fetched one.
C18_SinceFilter ==
    PollReturned =>
        \A i \in Fetch :
            IF FetchedTime(i) < since.t
            THEN EventsFor(i) = {} /\ AsBefore(Key(i))
            ELSE /\ UpsertRight(i)
                 /\ EventsFor(i) = {} =>
                       /\ Persisted(i)
                       /\ FetchedLabels(i) = PersistedLabels(i)
                       /\ FetchedTime(i) <= PersistedTime(i)

\* two items the day-granular search returned: one updated just before since
\* (not yet persisted, and dropped), one updated exactly at since (processed)
C18_Witness ==
    /\ PollReturned
    /\ \E i, j \in Fetch :
          /\ FetchedTime(i) < since.t
          /\ ~Persisted(i) /\ Key(i) \notin DOMAIN Saved
          /\ FetchedTime(j) = since.t
          /\ EventsFor(j) # {}

\* C20: every key of the persisted snapshot other than _meta is the key of an
\* item of the first snapshot file or of an item some poll observed (fetched
\* and not discarded); a poll removes no key; and after every successful poll
\* _meta holds the repository of the adapter.
C20_Keys ==
    /\ ~snapshot_file.isNone => DOMAIN Saved \ {META} \subseteq known
    /\ PollReturned =>
          /\ DOMAIN loaded \subseteq DOMAIN Saved
          /\ META \in DOMAIN Saved
          /\ Saved[META].repo = Repo

\* a second poll (the file had a _meta entry) kept the key of an item it did
\* not fetch and added the key of a new item
C20_Witness ==
    /\ PollReturned
    /\ META \in DOMAIN loaded
    /\ \E i \in Fetch : ~Discarded(i) /\ ~Persisted(i) /\ Key(i) \in DOMAIN Saved
    /\ Unfetched # {}
    /\ Unfetched \subseteq DOMAIN Saved

(***************************************************************************)
(* Claims about the order of the returned events and about repeated polls  *)
(***************************************************************************)
\* C21: the events a poll returns are in the order in which the fetch
\* returned their items: when item i comes before item j in the fetched list,
\* every event of i comes before every event of j, whatever the kinds of the
\* events and the order of the issue numbers.
C21_FetchOrder ==
    PollReturned =>
        \A i, j \in Fetch :
            i < j => \A a \in EventsFor(i), b \in EventsFor(j) : a < b

\* the fetch returned the higher issue number first; its 'created' event
\* precedes the 'labels_changed' event of the lower number
C21_Witness ==
    /\ PollReturned
    /\ \E i, j \in Fetch :
          /\ i < j
          /\ updated[i].number > updated[j].number
          /\ \E a \in KindFor(i, "created"), b \in KindFor(j, "labels_changed") : a < b

\* the second of two identical calls of poll_events_since has returned
Repolled == pc = "repolled"

\* C22: when poll_events_since is called twice in sequence with the same since
\* and the fetch returns the same items, the second call returns no events and
\* leaves every item record of the persisted snapshot as it was: the same
\* keys, the same records, the same _meta.repo.
C22_Dedupe ==
    Repolled =>
        /\ outcome.raised = ""
        /\ PollEvents = <<>>
        /\ DOMAIN Saved = DOMAIN loaded
        /\ \A k \in DOMAIN loaded \ {META} : Saved[k] = loaded[k]
        /\ Saved[META].repo = loaded[META].repo

\* the repeated fetch had an item that is processed and has labels, and one
\* that is discarded; the second call changed _meta.lastPolledAt only
C22_Witness ==
    /\ Repolled
    /\ \E i, j \in Fetch :
          /\ ~Discarded(i) /\ FetchedLabels(i) # {}
          /\ Discarded(j) /\ ~Persisted(j)
    /\ Saved[META].lastPolledAt # loaded[META].lastPolledAt

\* the events of kind 'created' that the list s has for the issue number n
CreatedFor(s, n) == { k \in 1..Len(s) : s[k].kind = "created" /\ s[k].issue_number = n }

\* C23: over a sequence of serialized successful polls a 'created' event is
\* synthesized at most once per item id. `known` only grows; a poll emits
\* 'created' for an id only if the id was not known before (it was neither in
\* the first file nor observed by an earlier poll), once per call, and the id
\* is known from then on; an id that has an entry in the persisted snapshot is
\* reported as 'labels_changed' or 'updated' only.
C23_CreatedOnce ==
    [][/\ known \subseteq known'
       /\ (pc = "idle" /\ pc' = "returned" /\ outcome'.raised = "") =>
             \A k \in 1..Len(outcome'.events) :
                /\ outcome'.events[k].kind = "created" =>
                      /\ str(outcome'.events[k].issue_number) \notin known
                      /\ str(outcome'.events[k].issue_number) \in known'
                      /\ CreatedFor(outcome'.events, outcome'.events[k].issue_number) = {k}
                /\ str(outcome'.events[k].issue_number) \in ItemKeys(snapshot_file) =>
                      outcome'.events[k].kind \in {"labels_changed", "updated"}]_vars

\* a later poll (the file had a _meta entry) reports issue 103, which only an
\* earlier poll can have created, as 'updated', next to a 'created' event
C23_Witness ==
    /\ PollReturned
    /\ META \in DOMAIN loaded
    /\ \E i, j \in Fetch :
          /\ updated[i].number = 103 /\ Persisted(i)
          /\ KindFor(i, "updated") # {}
          /\ KindFor(j, "created") # {}

(***************************************************************************)
(* Claims about replaying the diff engine                                  *)
(***************************************************************************)
Replayed == call.op = "replay"

\* C24: diff_work_items(s, s) is the empty list for every snapshot s; a tick
\* that is given the snapshot of the previous tick's result, the adapter
\* fetching the same snapshot again, returns no events (and that snapshot);
\* and diff_work_items emits at most one event per id, only for ids that are
\* in previous or in current.
C24_StableReplay ==
    /\ (DiffDone /\ previous.value = current) => DiffEvents = <<>>
    /\ Replayed =>
          /\ call.result.events = <<>>
          /\ call.result.snapshot = current
    /\ DiffDone =>
          \A k \in 1..Len(DiffEvents) :
             /\ EventId(DiffEvents[k]) \in DOMAIN previous.value \cup DOMAIN current
             /\ CountFor(AllTypes, EventId(DiffEvents[k]), DiffEvents) = 1

\* the replay of a tick whose snapshot has two items
C24_Witness ==
    /\ Replayed
    /\ previous = Some(current)
    /\ Cardinality(DOMAIN current) = 2

====
